---- MODULE Spec2Model ----
(***************************************************************************)
(* Model of src/main.py: a combinator text generator with grammatical      *)
(* gender agreement.  Context objects live on a heap (a sequence of        *)
(* records, addressed by index) so that aliasing and mutation are visible. *)
(* Texts are sequences of word tokens; concatenation is \o.                *)
(* Random choice (random.sample) is a nondeterministic choice of a child.  *)
(***************************************************************************)
EXTENDS Integers, Sequences, FiniteSets, TLC

VARIABLES
  heap,      \* the Context objects that exist: address -> [gender, tag, subcontexts]
  root,      \* the item generate is called on
  arg,       \* address of the context the caller passes to generate
  pc,        \* "start", "binding", "render", "done", "raised", or "ctx" (context operations only)
  pass,      \* the pass of Sequence.generate that is running or that raised: "", "binding", "render"
  context,   \* Sequence.generate's local `context` (address of the deep copy)
  i,         \* position of the next child handled by the running pass
  untagged_values,  \* Sequence.generate's list built by the binding pass
  parts,     \* the values the render pass has produced so far
  result,    \* the GenerateResult returned: [value, context]
  err,       \* the exception raised, "" when none
  heap0,     \* history: the heap when generate was called
  calls,     \* history: item.generate calls made on behalf of the root Sequence's children
  op         \* the last Context operation performed: [name, self, ret]

vars == <<heap, root, arg, pc, pass, context, i, untagged_values, parts, result, err, heap0, calls, op>>

-----------------------------------------------------------------------------
(* Bounds *)

MaxLen == 3      \* longest root Sequence
MaxCtx == 3      \* most Context objects the context operations create

-----------------------------------------------------------------------------
(* Gender, Context *)

INVALID == "INVALID"
MALE    == "MALE"
FEMALE  == "FEMALE"
Gender  == {INVALID, MALE, FEMALE}

NoContext == 0          \* Python None where a Context is expected
NoTag     == "<None>"   \* Python None where a tag is expected

\* Python truthiness of a tag: None and '' are falsy
Truthy(tag) == tag # NoTag /\ tag # ""

NoSubcontexts == [t \in {} |-> NoContext]

\* Context.__init__: a fresh object with an empty subcontexts dict
Context(gender, tag) == [gender |-> gender, tag |-> tag, subcontexts |-> NoSubcontexts]

\* allocation of an object: [heap, ret]
New(h, obj) == [heap |-> Append(h, obj), ret |-> Len(h) + 1]

\* Context.with_gender: Context(gender=gender, tag=self.tag)
WithGender(h, self, gender) == New(h, Context(gender, h[self].tag))

\* Context.with_tag: Context(gender=self.gender, tag=tag)
WithTag(h, self, tag) == New(h, Context(h[self].gender, tag))

\* Context.register_tagged_subcontext (the assert is the caller's obligation):
\* self.subcontexts[context.tag] = context
RegisterTaggedSubcontext(h, self, c) ==
  LET old == h[self].subcontexts
      key == h[c].tag
      new == [t \in DOMAIN old \cup {key} |-> IF t = key THEN c ELSE old[t]]
  IN [h EXCEPT ![self].subcontexts = new]

\* Context.get_subcontext: self.subcontexts[tag], KeyError when absent
HasSubcontext(h, self, tag) == tag \in DOMAIN h[self].subcontexts
GetSubcontext(h, self, tag) == h[self].subcontexts[tag]

-----------------------------------------------------------------------------
(* copy.deepcopy of a Context: every object reachable from it is copied    *)
(* once (the memo), the copy's subcontexts point at the copies.            *)

RECURSIVE DeepCopyObj(_, _, _)
RECURSIVE DeepCopyDict(_, _, _, _, _)

\* copies the entries `todo` of x's subcontexts into the copy y
DeepCopyDict(x, y, todo, h, memo) ==
  IF todo = {} THEN [heap |-> h, memo |-> memo]
  ELSE LET t  == CHOOSE u \in todo : TRUE
           r  == DeepCopyObj(h[x].subcontexts[t], h, memo)
           yo == r.heap[y]
           h2 == [r.heap EXCEPT ![y].subcontexts =
                    [u \in DOMAIN yo.subcontexts \cup {t} |->
                       IF u = t THEN r.ret ELSE yo.subcontexts[u]]]
       IN DeepCopyDict(x, y, todo \ {t}, h2, r.memo)

DeepCopyObj(x, h, memo) ==
  IF x = NoContext THEN [heap |-> h, ret |-> NoContext, memo |-> memo]
  ELSE IF x \in DOMAIN memo THEN [heap |-> h, ret |-> memo[x], memo |-> memo]
  ELSE LET a  == New(h, Context(h[x].gender, h[x].tag))
           m2 == [k \in DOMAIN memo \cup {x} |-> IF k = x THEN a.ret ELSE memo[k]]
           r  == DeepCopyDict(x, a.ret, DOMAIN h[x].subcontexts, a.heap, m2)
       IN [heap |-> r.heap, ret |-> a.ret, memo |-> r.memo]

\* mutant: no copy, the Sequence works on the caller's object
DeepCopyAlias(h, x) == [heap |-> h, ret |-> x]

DeepCopy(h, x) ==
  LET r == DeepCopyObj(x, h, [k \in {} |-> 0]) IN [heap |-> r.heap, ret |-> r.ret]

-----------------------------------------------------------------------------
(* Items and their constructors *)

\* a bare str given where an item is expected
Str(value) == [kind |-> "str", value |-> value]

\* Literal.__init__, Literal.male, Literal.female
Literal(value, gender) == [kind |-> "Literal", value |-> value, gender |-> gender]
LiteralMale(value)   == Literal(value, MALE)
LiteralFemale(value) == Literal(value, FEMALE)

\* Options.__init__: str arguments become Literals; no check for an empty list
Options(args) ==
  [kind |-> "Options",
   list |-> [k \in DOMAIN args |->
               IF args[k].kind = "str" THEN Literal(args[k].value, INVALID) ELSE args[k]]]

\* Sequence.__init__
Sequence(args) == [kind |-> "Sequence", values |-> args]

\* Gendered.__init__: female defaults to male + suffix
FeminineSuffix == <<"+heh">>   \* stands for the Hebrew letter he appended at line 99
Gendered(male, female) ==
  [kind |-> "Gendered", male |-> male,
   female |-> IF female = <<>> THEN male \o FeminineSuffix ELSE female]

\* BaseItem.def_tag / TagDefinitionWrapper.__init__: no check of the tag
DefTag(item, tag) == [kind |-> "TagDefinitionWrapper", underlying_item |-> item, tag |-> tag]

\* BaseItem.apply_tag / TagApplicationWrapper.__init__: no check of the tag
ApplyTag(item, tag) == [kind |-> "TagApplicationWrapper", underlying_item |-> item, tag |-> tag]

IsBaseItem(item) == item.kind # "str"

-----------------------------------------------------------------------------
(* generate: every operator returns the SET of possible outcomes, one per   *)
(* draw of the random choices made on the way.  An outcome is either a      *)
(* GenerateResult (err = "") with the heap after the call, or an exception. *)

Ok(value, c, h)  == [err |-> "", value |-> value, context |-> c, heap |-> h]
Raise(e, h)      == [err |-> e, value |-> <<>>, context |-> NoContext, heap |-> h]

\* mutant: a separator between the parts
RECURSIVE JoinSep(_)
JoinSep(ps) == IF ps = <<>> THEN <<>>
               ELSE IF Len(ps) = 1 THEN ps[1]
               ELSE ps[1] \o <<" ">> \o JoinSep(Tail(ps))

\* ''.join(parts)
RECURSIVE Join(_)
Join(ps) == IF ps = <<>> THEN <<>> ELSE ps[1] \o Join(Tail(ps))

RECURSIVE ItemGenerate(_, _, _)
RECURSIVE GenerateIfTagDef(_, _, _)
RECURSIVE GenerateUntagged(_, _, _)
RECURSIVE BindingPass(_, _, _, _, _)
RECURSIVE RenderPass(_, _, _, _, _)

\* module-level generate(item, context)
Generate(item, c, h) ==
  IF IsBaseItem(item) THEN ItemGenerate(item, c, h) ELSE {Ok(item.value, c, h)}

\* mutant: the Literal hands the ambient context on
LiteralGenerateAmbient(item, c, h) == {Ok(item.value, c, h)}

\* Literal.generate: a new Context carrying only the Literal's gender
LiteralGenerate(item, c, h) ==
  LET a == New(h, Context(item.gender, NoTag)) IN {Ok(item.value, a.ret, a.heap)}

\* mutant: male only for MALE
GenderedGenerateMaleOnly(item, c, h) ==
  IF c = NoContext THEN {Raise("AttributeError", h)}
  ELSE {Ok(IF h[c].gender = MALE THEN item.male ELSE item.female, c, h)}

\* Gendered.generate
GenderedGenerate(item, c, h) ==
  IF c = NoContext THEN {Raise("AttributeError", h)}
  ELSE {Ok(IF h[c].gender = FEMALE THEN item.female ELSE item.male, c, h)}

\* Options.generate: random.sample(self.list, 1) raises ValueError on an empty list
OptionsGenerate(item, c, h) ==
  IF Len(item.list) = 0 THEN {Raise("ValueError", h)}
  ELSE UNION {Generate(item.list[k], c, h) : k \in DOMAIN item.list}

\* TagDefinitionWrapper.generate: generated_result.context.with_tag(self.tag)
TagDefinitionGenerate(item, c, h) ==
  {IF r.err # "" THEN r
   ELSE IF r.context = NoContext THEN Raise("AttributeError", r.heap)
   ELSE LET w == WithTag(r.heap, r.context, item.tag) IN Ok(r.value, w.ret, w.heap)
   : r \in ItemGenerate(item.underlying_item, c, h)}

\* TagApplicationWrapper.generate
TagApplicationGenerate(item, c, h) == ItemGenerate(item.underlying_item, c, h)

\* Sequence.generate
SequenceGenerate(item, c, h) ==
  LET cp == DeepCopy(h, c) IN
  UNION {IF b.err # "" THEN {Raise(b.err, b.heap)}
         ELSE RenderPass(b.untagged, 1, cp.ret, b.heap, <<>>)
         : b \in BindingPass(item.values, 1, cp.ret, cp.heap, <<>>)}

ItemGenerate(item, c, h) ==
  CASE item.kind = "Literal"  -> LiteralGenerate(item, c, h)
    [] item.kind = "Gendered" -> GenderedGenerate(item, c, h)
    [] item.kind = "Options"  -> OptionsGenerate(item, c, h)
    [] item.kind = "Sequence" -> SequenceGenerate(item, c, h)
    [] item.kind = "TagDefinitionWrapper"  -> TagDefinitionGenerate(item, c, h)
    [] item.kind = "TagApplicationWrapper" -> TagApplicationGenerate(item, c, h)

\* mutant: the definition is left in the list and generated again by the render pass
GenerateIfTagDefKeepItem(item, c, h) ==
  IF item.kind # "TagDefinitionWrapper"
  THEN {[err |-> "", item |-> item, heap |-> h, called |-> <<>>]}
  ELSE {IF r.err # ""
        THEN [err |-> r.err, item |-> item, heap |-> r.heap, called |-> <<r.value>>]
        ELSE [err |-> "", item |-> item,
              heap |-> IF r.context # NoContext /\ Truthy(r.heap[r.context].tag)
                       THEN RegisterTaggedSubcontext(r.heap, c, r.context) ELSE r.heap,
              called |-> <<r.value>>]
        : r \in ItemGenerate(item, c, h)}

\* Sequence.generate_if_tag_def: [err, item (the list entry), heap, called (the
\* value of the item.generate call made, if one was made)]
GenerateIfTagDef(item, c, h) ==
  IF item.kind # "TagDefinitionWrapper"
  THEN {[err |-> "", item |-> item, heap |-> h, called |-> <<>>]}
  ELSE {IF r.err # ""
        THEN [err |-> r.err, item |-> item, heap |-> r.heap, called |-> <<r.value>>]
        ELSE [err |-> "", item |-> Literal(r.value, INVALID),
              heap |-> IF r.context # NoContext /\ Truthy(r.heap[r.context].tag)
                       THEN RegisterTaggedSubcontext(r.heap, c, r.context) ELSE r.heap,
              called |-> <<r.value>>]
        : r \in ItemGenerate(item, c, h)}

\* mutant: a single left-to-right pass would render under the ambient context
GenerateUntaggedAmbient(item, c, h) == Generate(item, c, h)

\* Sequence.generate_untagged
GenerateUntagged(item, c, h) ==
  IF item.kind = "TagApplicationWrapper"
  THEN IF HasSubcontext(h, c, item.tag)
       THEN Generate(item, GetSubcontext(h, c, item.tag), h)
       ELSE {Raise("KeyError", h)}
  ELSE Generate(item, c, h)

\* line 69: list(map(generate_if_tag_def, self.values)), from position k on
BindingPass(values, k, c, h, acc) ==
  IF k > Len(values) THEN {[err |-> "", untagged |-> acc, heap |-> h]}
  ELSE UNION {IF g.err # "" THEN {[err |-> g.err, untagged |-> acc, heap |-> g.heap]}
              ELSE BindingPass(values, k + 1, c, g.heap, Append(acc, g.item))
              : g \in GenerateIfTagDef(values[k], c, h)}

\* line 71: ''.join(map(generate_untagged(...).value, untagged_values)), from position k on
RenderPass(untagged, k, c, h, acc) ==
  IF k > Len(untagged) THEN {Ok(Join(acc), NoContext, h)}
  ELSE UNION {IF r.err # "" THEN {r}
              ELSE RenderPass(untagged, k + 1, c, r.heap, Append(acc, r.value))
              : r \in GenerateUntagged(untagged[k], c, h)}

-----------------------------------------------------------------------------
(* The trees and caller contexts generate is called with *)

rock     == LiteralMale(<<"rock">>)
pillow   == LiteralFemale(<<"pillow">>)
fell     == Gendered(<<"fell-m">>, <<"fell-f">>)
who      == Options(<<rock, pillow>>)
friend   == Options(<<LiteralMale(<<"Tom">>), LiteralFemale(<<"Amy">>)>>)

\* the items a root Sequence is built from
Children ==
  { Str(<<" on ">>),
    DefTag(who, "x"),
    ApplyTag(fell, "x"),
    Gendered(<<"he">>, <<>>),
    DefTag(Sequence(<<Str(<<"a">>)>>), "y"),
    DefTag(LiteralFemale(<<"Amy">>), ""),
    Options(<<>>),
    Sequence(<<DefTag(pillow, "y"), ApplyTag(fell, "x")>>),
    ApplyTag(Sequence(<<fell>>), "x"),
    DefTag(fell, "y"),
    DefTag(friend, "y"),
    ApplyTag(Gendered(<<"arrived">>, <<"arrived-f">>), "y"),
    rock }

\* roots that are not Sequences
Others ==
  { LiteralMale(<<"Tom">>), Literal(<<"hi">>, INVALID), fell, Gendered(<<"he">>, <<>>),
    Options(<<Str(<<"cat">>), rock>>), DefTag(pillow, "x"), ApplyTag(fell, "x") }

SeqsOfLen(n) == [1..n -> Children]
Roots == {Sequence(vs) : vs \in UNION {SeqsOfLen(n) : n \in 0..MaxLen}} \cup Others

\* the objects that exist before the call: Context(), Context(FEMALE, 'foo') holding a
\* subcontext 'x', Context(MALE), and the registered Context(FEMALE, 'x')
CallerHeap ==
  LET h == <<Context(INVALID, NoTag), Context(FEMALE, "foo"), Context(MALE, NoTag),
             Context(FEMALE, "x")>>
  IN RegisterTaggedSubcontext(h, 2, 4)
Callers == {1, 2, 3}

NoItem   == Str(<<>>)
NoResult == [value |-> <<>>, context |-> NoContext]
NoOp     == [name |-> "", self |-> NoContext, ret |-> NoContext]

-----------------------------------------------------------------------------
(* generate(root, arg): the root Sequence runs pass by pass, child by child *)

Init ==
  /\ heap = CallerHeap
  /\ root \in Roots
  /\ arg \in Callers
  /\ pc = "start"
  /\ pass = ""
  /\ context = NoContext
  /\ i = 1
  /\ untagged_values = <<>>
  /\ parts = <<>>
  /\ result = NoResult
  /\ err = ""
  /\ heap0 = CallerHeap
  /\ calls = <<>>
  /\ op = NoOp

\* the record kept of one item.generate call: the pass and position it was made at,
\* the item it was made on, the value it returned and the exception it raised
Call(p, pos, item, value, e) ==
  [pass |-> p, pos |-> pos, item |-> item, value |-> value, err |-> e]

\* Sequence.generate, line 68: context = copy.deepcopy(context)
SequenceEnter ==
  /\ pc = "start"
  /\ root.kind = "Sequence"
  /\ LET cp == DeepCopy(heap, arg) IN
       /\ heap' = cp.heap
       /\ context' = cp.ret
  /\ pc' = "binding"
  /\ pass' = "binding"
  /\ i' = 1
  /\ UNCHANGED <<root, arg, untagged_values, parts, result, err, heap0, calls, op>>

\* line 69, one element of the map: generate_if_tag_def(self.values[i], context)
BindingStep ==
  /\ pc = "binding"
  /\ i <= Len(root.values)
  /\ \E g \in GenerateIfTagDef(root.values[i], context, heap) :
       /\ heap' = g.heap
       /\ calls' = IF g.called = <<>> THEN calls
                   ELSE Append(calls, Call("binding", i, root.values[i], g.called[1], g.err))
       /\ IF g.err # ""
          THEN /\ pc' = "raised"
               /\ err' = g.err
               /\ UNCHANGED <<untagged_values, i>>
          ELSE /\ untagged_values' = Append(untagged_values, g.item)
               /\ i' = i + 1
               /\ UNCHANGED <<pc, err>>
  /\ UNCHANGED <<root, arg, pass, context, parts, result, heap0, op>>

\* line 69 is complete (list(...) has consumed the map); line 71 starts
BindingDone ==
  /\ pc = "binding"
  /\ i > Len(root.values)
  /\ pc' = "render"
  /\ pass' = "render"
  /\ i' = 1
  /\ UNCHANGED <<heap, root, arg, context, untagged_values, parts, result, err, heap0, calls, op>>

\* line 71, one element of the map: generate_untagged(untagged_values[i], context).value
RenderStep ==
  /\ pc = "render"
  /\ i <= Len(untagged_values)
  /\ \E r \in GenerateUntagged(untagged_values[i], context, heap) :
       /\ heap' = r.heap
       /\ calls' = IF r.err = "KeyError" /\ untagged_values[i].kind = "TagApplicationWrapper"
                      /\ ~HasSubcontext(heap, context, untagged_values[i].tag)
                   THEN calls
                   ELSE Append(calls, Call("render", i, untagged_values[i], r.value, r.err))
       /\ IF r.err # ""
          THEN /\ pc' = "raised"
               /\ err' = r.err
               /\ UNCHANGED <<parts, i>>
          ELSE /\ parts' = Append(parts, r.value)
               /\ i' = i + 1
               /\ UNCHANGED <<pc, err>>
  /\ UNCHANGED <<root, arg, pass, context, untagged_values, result, heap0, op>>

\* line 71: GenerateResult(''.join(...)), context left None
SequenceReturn ==
  /\ pc = "render"
  /\ i > Len(untagged_values)
  /\ result' = [value |-> Join(parts), context |-> NoContext]
  /\ pc' = "done"
  /\ UNCHANGED <<heap, root, arg, pass, context, i, untagged_values, parts, err, heap0, calls, op>>

\* generate(root, arg) for a root that is not a Sequence
GenerateOther ==
  /\ pc = "start"
  /\ root.kind # "Sequence"
  /\ \E r \in Generate(root, arg, heap) :
       /\ heap' = r.heap
       /\ IF r.err # ""
          THEN pc' = "raised" /\ err' = r.err /\ UNCHANGED result
          ELSE pc' = "done" /\ result' = [value |-> r.value, context |-> r.context]
               /\ UNCHANGED err
  /\ UNCHANGED <<root, arg, pass, context, i, untagged_values, parts, heap0, calls, op>>

Next ==
  \/ SequenceEnter
  \/ BindingStep
  \/ BindingDone
  \/ RenderStep
  \/ SequenceReturn
  \/ GenerateOther

Spec == Init /\ [][Next]_vars

-----------------------------------------------------------------------------
(* The Context operations on their own: contexts are built, derived and     *)
(* registered into one another.                                             *)

CtxTags == {NoTag, "x", "y"}

InitCtx ==
  /\ heap = <<Context(INVALID, NoTag)>>
  /\ root = NoItem
  /\ arg = NoContext
  /\ pc = "ctx"
  /\ pass = ""
  /\ context = NoContext
  /\ i = 1
  /\ untagged_values = <<>>
  /\ parts = <<>>
  /\ result = NoResult
  /\ err = ""
  /\ heap0 = <<>>
  /\ calls = <<>>
  /\ op = NoOp

CtxFrame == UNCHANGED <<root, arg, pc, pass, context, i, untagged_values, parts, result, err, heap0, calls>>

\* Context(gender, tag)
CtxNew ==
  /\ pc = "ctx" /\ Len(heap) < MaxCtx
  /\ \E g \in {MALE, FEMALE}, t \in CtxTags :
       LET a == New(heap, Context(g, t)) IN
         heap' = a.heap /\ op' = [name |-> "Context", self |-> NoContext, ret |-> a.ret]
  /\ CtxFrame

\* self.with_gender(gender)
CtxWithGender ==
  /\ pc = "ctx" /\ Len(heap) < MaxCtx
  /\ \E self \in DOMAIN heap, g \in Gender :
       LET a == WithGender(heap, self, g) IN
         heap' = a.heap /\ op' = [name |-> "with_gender", self |-> self, ret |-> a.ret]
  /\ CtxFrame

\* self.with_tag(tag)
CtxWithTag ==
  /\ pc = "ctx" /\ Len(heap) < MaxCtx
  /\ \E self \in DOMAIN heap, t \in CtxTags \ {NoTag} :
       LET a == WithTag(heap, self, t) IN
         heap' = a.heap /\ op' = [name |-> "with_tag", self |-> self, ret |-> a.ret]
  /\ CtxFrame

\* self.register_tagged_subcontext(context), assert context.tag
CtxRegister ==
  /\ pc = "ctx"
  /\ \E self \in DOMAIN heap, c \in DOMAIN heap :
       /\ Truthy(heap[c].tag)
       /\ heap' = RegisterTaggedSubcontext(heap, self, c)
       /\ op' = [name |-> "register_tagged_subcontext", self |-> self, ret |-> NoContext]
  /\ CtxFrame

\* self.get_subcontext(tag)
CtxGetSubcontext ==
  /\ pc = "ctx"
  /\ \E self \in DOMAIN heap, t \in CtxTags :
       /\ HasSubcontext(heap, self, t)
       /\ op' = [name |-> "get_subcontext", self |-> self, ret |-> GetSubcontext(heap, self, t)]
  /\ UNCHANGED heap
  /\ CtxFrame

NextCtx ==
  \/ CtxNew
  \/ CtxWithGender
  \/ CtxWithTag
  \/ CtxRegister
  \/ CtxGetSubcontext

SpecCtx == InitCtx /\ [][NextCtx]_vars

-----------------------------------------------------------------------------
(* Vocabulary of the properties *)

IsSeqRoot == root.kind = "Sequence"
IsDef(item) == item.kind = "TagDefinitionWrapper"
IsApp(item) == item.kind = "TagApplicationWrapper"

\* positions of the root Sequence's TagDefinition children with tag t
DefPositions(t) == {k \in DOMAIN root.values : IsDef(root.values[k]) /\ root.values[k].tag = t}

\* a Choice whose children are all Literals with gender MALE or FEMALE
IsGenderedChoice(item) ==
  /\ item.kind = "Options"
  /\ Len(item.list) > 0
  /\ \A k \in DOMAIN item.list :
       item.list[k].kind = "Literal" /\ item.list[k].gender \in {MALE, FEMALE}

\* the genders of the Literals of a Choice that have the given text
GendersOf(choice, text) ==
  {choice.list[k].gender : k \in {n \in DOMAIN choice.list : choice.list[n].value = text}}

\* the recorded calls made in pass p at position k
CallsAt(p, k) == {n \in DOMAIN calls : calls[n].pass = p /\ calls[n].pos = k}

\* the application at position j was rendered by call n, and agrees with the Literal
\* drawn by the definition at position k
Agrees(j, n, k) ==
  \A m \in CallsAt("binding", k) :
    LET app == root.values[j].underlying_item
        fem == GendersOf(root.values[k].underlying_item, calls[m].value) = {FEMALE}
    IN calls[n].value = IF fem THEN app.female ELSE app.male

\* position j holds TagApplication(GenderedForm, t), position k TagDefinition(gendered Choice, t)
AppDefPair(j, k) ==
  /\ IsApp(root.values[j])
  /\ root.values[j].underlying_item.kind = "Gendered"
  /\ IsDef(root.values[k])
  /\ root.values[k].tag = root.values[j].tag
  /\ IsGenderedChoice(root.values[k].underlying_item)

\* C1 as stated: in a Sequence with a TagDefinition(Choice of gendered Literals, t) child
\* and a TagApplication(GenderedForm(m, f), t) child, the application renders f exactly
\* when the Literal emitted at the definition's position is FEMALE, and m otherwise,
\* whichever of the two comes first.
C1_AgreementWithAnyDefinition ==
  IsSeqRoot =>
    \A j \in DOMAIN root.values, k \in DOMAIN root.values :
      AppDefPair(j, k) =>
        \A n \in CallsAt("render", j) : calls[n].err = "" => Agrees(j, n, k)

\* C1 amended: the same, for the LAST TagDefinition child with tag t of the Sequence
\* (a later definition of the same tag replaces the earlier registration).
C1_AgreementWithLastDefinition ==
  IsSeqRoot =>
    \A j \in DOMAIN root.values, k \in DOMAIN root.values :
      (AppDefPair(j, k) /\ \A d \in DefPositions(root.values[j].tag) : d <= k) =>
        \A n \in CallsAt("render", j) : calls[n].err = "" => Agrees(j, n, k)

\* the forward reference: the application at 1 rendered "fell-f", the definition at 3 drew pillow
C1_Witness ==
  /\ IsSeqRoot /\ pc = "done"
  /\ root.values = <<ApplyTag(fell, "x"), Str(<<" on ">>), DefTag(who, "x")>>
  /\ result.value = <<"fell-f", " on ", "pillow">>

\* an application of t is unresolvable: no TagDefinition child has tag t and the
\* caller's context has no binding for t
UnresolvableAt(j) ==
  /\ IsApp(root.values[j])
  /\ DefPositions(root.values[j].tag) = {}
  /\ ~HasSubcontext(heap0, arg, root.values[j].tag)

\* C2: a Sequence with an unresolvable TagApplication child returns no string, and the
\* error is raised in the render pass, whatever the other children are.
C2_UnresolvedTagRaisesInRenderPass ==
  (IsSeqRoot /\ \E j \in DOMAIN root.values : UnresolvableAt(j)) =>
    /\ pc # "done"
    /\ pc = "raised" => pass = "render"

\* the text child k contributed: a TagDefinition's comes from its binding-pass call,
\* any other child's from its render-pass call
ChildText(k) ==
  LET p == IF IsDef(root.values[k]) THEN "binding" ELSE "render"
  IN calls[CHOOSE n \in CallsAt(p, k) : TRUE].value

RECURSIVE TextUpTo(_)
TextUpTo(k) == IF k = 0 THEN <<>> ELSE TextUpTo(k - 1) \o ChildText(k)

\* C3: the value a Sequence returns is the in-order concatenation of its children's
\* texts, nothing added, dropped or reordered.
C3_Concatenation ==
  (IsSeqRoot /\ pc = "done") =>
    /\ \A k \in DOMAIN root.values :
         Cardinality(CallsAt(IF IsDef(root.values[k]) THEN "binding" ELSE "render", k)) = 1
    /\ result.value = TextUpTo(Len(root.values))

C3_Witness ==
  /\ IsSeqRoot /\ pc = "done"
  /\ root.values = <<DefTag(who, "x"), Str(<<" on ">>), ApplyTag(fell, "x")>>
  /\ result.value = <<"rock", " on ", "fell-m">>

\* C4: no Context that existed when generate was called is changed by the call, whether
\* it returns or raises; and the context handed to a nested Sequence gains no tag from
\* it: the root Sequence's own copy binds only the caller's tags and those of the
\* root's own TagDefinition children.
C4_CallerContextUnchanged ==
  /\ \A a \in DOMAIN heap0 : a \in DOMAIN heap /\ heap[a] = heap0[a]
  /\ (IsSeqRoot /\ context # NoContext) =>
       /\ context \notin DOMAIN heap0
       /\ \A t \in DOMAIN heap[context].subcontexts :
            HasSubcontext(heap0, arg, t) \/ DefPositions(t) # {}

\* the root registered x in its copy, a nested Sequence registered y in its own, and
\* the caller's context binds neither
C4_Witness ==
  /\ IsSeqRoot /\ pc = "done" /\ arg = 1
  /\ root.values = <<DefTag(who, "x"), Sequence(<<DefTag(pillow, "y"), ApplyTag(fell, "x")>>)>>
  /\ DOMAIN heap[context].subcontexts = {"x"}

\* C5: a Literal returns its value and a new Context with the Literal's gender, no tag
\* and no bindings, whatever context it is evaluated under.
C5_LiteralResetsContext ==
  root.kind = "Literal" =>
    /\ pc # "raised"
    /\ pc = "done" =>
         /\ result.value = root.value
         /\ result.context \in DOMAIN heap \ DOMAIN heap0
         /\ heap[result.context].gender = root.gender
         /\ heap[result.context].tag = NoTag
         /\ DOMAIN heap[result.context].subcontexts = {}

\* a MALE Literal evaluated under Context(FEMALE, 'foo') that holds a binding
C5_Witness ==
  /\ root = LiteralMale(<<"Tom">>) /\ pc = "done" /\ arg = 2
  /\ heap0[arg].gender = FEMALE /\ heap0[arg].tag = "foo"
  /\ DOMAIN heap0[arg].subcontexts # {}

\* C6: a GenderedForm returns the female string exactly under a FEMALE context, the male
\* string under MALE and INVALID, and returns the context it was given, unchanged.
C6_GenderedSelectsByContext ==
  root.kind = "Gendered" =>
    /\ pc # "raised"
    /\ pc = "done" =>
         /\ result.value = IF heap0[arg].gender = FEMALE THEN root.female ELSE root.male
         /\ result.context = arg
         /\ heap[arg] = heap0[arg]

\* the fallback: INVALID gender gives the male string
C6_Witness ==
  /\ root = fell /\ pc = "done"
  /\ heap0[arg].gender = INVALID
  /\ result.value = <<"fell-m">>

\* C7: with_gender and with_tag leave the context unmodified and return a new context
\* that differs only in the replaced field and has the same bindings.
C7_DerivedContextKeepsBindings ==
  op.name \in {"with_gender", "with_tag"} =>
    /\ op.ret # op.self
    /\ heap[op.ret].subcontexts = heap[op.self].subcontexts
    /\ op.name = "with_gender" => heap[op.ret].tag = heap[op.self].tag
    /\ op.name = "with_tag" => heap[op.ret].gender = heap[op.self].gender

\* C8: an empty Choice and an empty tag are rejected when the tree is built, so no
\* evaluation reaches a Choice with no children, nor a binding pass handling a
\* TagDefinition with an empty tag.
C8_NoMalformedNodeIsEvaluated ==
  /\ ~(pc = "raised" /\ err = "ValueError")
  /\ ~(/\ IsSeqRoot /\ pc = "binding" /\ i <= Len(root.values)
       /\ IsDef(root.values[i]) /\ root.values[i].tag = "")

RECURSIVE WellFormed(_)
\* every Choice of the tree has a child and every tag is non-empty
WellFormed(item) ==
  CASE item.kind = "Options"  -> Len(item.list) > 0 /\ \A k \in DOMAIN item.list : WellFormed(item.list[k])
    [] item.kind = "Sequence" -> \A k \in DOMAIN item.values : WellFormed(item.values[k])
    [] item.kind \in {"TagDefinitionWrapper", "TagApplicationWrapper"} ->
         Truthy(item.tag) /\ WellFormed(item.underlying_item)
    [] OTHER -> TRUE

RECURSIVE HasUnregisteredApplication(_)
\* some Sequence of the tree has a TagApplication child whose tag no TagDefinition
\* child of that Sequence has
HasUnregisteredApplication(item) ==
  CASE item.kind = "Options"  -> \E k \in DOMAIN item.list : HasUnregisteredApplication(item.list[k])
    [] item.kind = "Sequence" ->
         \/ \E k \in DOMAIN item.values : HasUnregisteredApplication(item.values[k])
         \/ \E j \in DOMAIN item.values :
              /\ IsApp(item.values[j])
              /\ ~\E k \in DOMAIN item.values :
                    IsDef(item.values[k]) /\ item.values[k].tag = item.values[j].tag
    [] item.kind \in {"TagDefinitionWrapper", "TagApplicationWrapper"} ->
         HasUnregisteredApplication(item.underlying_item)
    [] OTHER -> FALSE

\* C9: on a well-formed tree generate returns a result, unless some TagApplication child
\* of a Sequence names a tag that no TagDefinition child of that Sequence registered.
C9_TotalApartFromUnresolvedTag ==
  (WellFormed(root) /\ ~HasUnregisteredApplication(root)) => pc # "raised"

\* C10: in one evaluation of a Sequence every TagDefinition child is generated exactly
\* once, in the binding pass, left to right; all of that completes before any other
\* child is generated; the other children are generated only in the render pass, left
\* to right, where a TagDefinition's place is taken by a Literal of its text.
C10_TwoPassOrder ==
  IsSeqRoot =>
    /\ \A n \in DOMAIN calls :
         LET c == calls[n] child == root.values[c.pos] IN
           /\ c.pass = "binding" => IsDef(child) /\ c.item = child
           /\ c.pass = "render" =>
                IF IsDef(child)
                THEN \E m \in CallsAt("binding", c.pos) :
                       m < n /\ c.item = Literal(calls[m].value, INVALID)
                ELSE c.item = child
    /\ \A n \in DOMAIN calls, m \in DOMAIN calls :
         n < m => /\ calls[n].pass = "render" => calls[m].pass = "render"
                  /\ calls[n].pass = calls[m].pass => calls[n].pos < calls[m].pos
    /\ \A n \in DOMAIN calls :
         calls[n].pass = "render" =>
           \A k \in DOMAIN root.values :
             IsDef(root.values[k]) =>
               /\ Cardinality(CallsAt("binding", k)) = 1
               /\ \A m \in CallsAt("binding", k) : calls[m].err = ""
               /\ Truthy(root.values[k].tag) => HasSubcontext(heap, context, root.values[k].tag)
    /\ pc = "done" =>
         \A k \in DOMAIN root.values :
           /\ Cardinality(CallsAt("binding", k)) = IF IsDef(root.values[k]) THEN 1 ELSE 0
           /\ Cardinality(CallsAt("render", k)) = 1

\* the definition at 3 was generated first, then positions 1, 2, 3 were rendered
C10_Witness ==
  /\ IsSeqRoot /\ pc = "done"
  /\ root.values = <<ApplyTag(fell, "x"), Gendered(<<"he">>, <<>>), DefTag(who, "x")>>
  /\ Len(calls) = 4
  /\ calls[1].pass = "binding" /\ calls[1].pos = 3
  /\ calls[2].pass = "render" /\ calls[2].pos = 1 /\ calls[4].pos = 3

====
